---------------------------- MODULE Spec2Model ----------------------------
(***************************************************************************)
(* A model of the datagram network endpoint of                             *)
(* pkg/tcpip/transport/internal/network/endpoint.go.                       *)
(*                                                                         *)
(* Every method that takes e.mu for its whole body is one atomic action    *)
(* (its critical section).  Write is two steps: the snapshot taken under   *)
(* the read lock, and the transmission done without the lock.              *)
(***************************************************************************)
EXTENDS Integers, Sequences, FiniteSets, TLC

(***************************************************************************)
(* Bounds of the model.                                                    *)
(***************************************************************************)
\* routes the stack hands out in one behaviour
MaxRoutes == 2
\* Write calls that may be in flight at once
MaxWriters == 2

(***************************************************************************)
(* The address universe.                                                   *)
(***************************************************************************)
NoAddr == ""
LocalV4 == "10.0.0.1"
LocalV4b == "10.0.1.1"
RemoteV4 == "10.0.0.9"
McastV4 == "224.0.0.1"
IPv4Broadcast == "255.255.255.255"
MappedV4 == "::ffff:10.0.0.9"

NICs == {1, 2}
NICIDs == {0} \cup NICs
NetProtos == {"ipv4", "ipv6"}

Initial == "Initial"
Bound == "Bound"
Connected == "Connected"
Closed == "Closed"

NoError == "nil"

\* the values of multicastMembership this model uses
MembershipPairs == [nicID : NICs, multicastAddr : {McastV4}]
\* the Write calls that may run at once
Writers == 1..MaxWriters
IdleWriter == [pc |-> "idle", route |-> 0, owner |-> 0, ttl |-> 0, tos |-> 0]

VARIABLES
    state,                 \* e.state
    writeShutdown,         \* e.writeShutdown
    info,                  \* e.info
    effectiveNetProto,     \* e.effectiveNetProto
    route,                 \* e.route: 0 is nil, else an index of routes
    ttl,                   \* e.ttl
    multicastTTL,          \* e.multicastTTL
    multicastAddr,         \* e.multicastAddr
    multicastNICID,        \* e.multicastNICID
    multicastMemberships,  \* e.multicastMemberships
    sendTOS,               \* e.sendTOS
    owner,                 \* e.owner
    routes,                \* the stack's routes handed to the endpoint, with their reference counts
    nics,                  \* the NICs the stack has
    groups,                \* the stack's count of this endpoint's joins per (NIC, group)
    writers,               \* the Write calls past their snapshot
    last,                  \* the call that returned last: what it returned, whether its
                           \* hook ran, whether a Bind has succeeded so far, for
                           \* Connect and Write the options and the NIC it was given,
                           \* for an integer option its name and the value given or got
    mu,                    \* e.mu: who holds it and who is parked on it
    callers,               \* the goroutines calling the endpoint: how far each has
                           \* come in its call, and the Write it is sending
    profilingMetricsStarted,  \* metric.profilingMetricsStarted
    stopProfilingMetrics,     \* metric.stopProfilingMetrics: the signals in the channel
    writeCh,                  \* writeCh of StartProfilingMetrics: whether it is closed
    collector,                \* the goroutine collectProfilingMetrics and its locals
    writer,                   \* the goroutine writeProfilingMetrics and its locals
    ProfilingMetricWriter,    \* metric.ProfilingMetricWriter: the file, and the strings
                              \* written to it one after the other
    sampled                   \* every sample the collector has taken, in order

epVars == <<state, writeShutdown, info, effectiveNetProto, route, ttl, multicastTTL,
            multicastAddr, multicastNICID, multicastMemberships, sendTOS, owner>>
stackVars == <<routes, nics, groups>>
lockVars == <<mu, callers>>
profVars == <<profilingMetricsStarted, stopProfilingMetrics, writeCh, collector, writer,
              ProfilingMetricWriter, sampled>>
vars == <<epVars, stackVars, writers, last, lockVars, profVars>>
\* a step of the endpoint whose caller is alone: it finds e.mu free and leaves
\* it free, and the profiler is not part of it
Alone == UNCHANGED <<lockVars, profVars>>

(***************************************************************************)
(* header.* address predicates and the stack's static topology.            *)
(***************************************************************************)
IsV4MulticastAddress(a) == a = McastV4
IsV6MulticastAddress(a) == FALSE
IsV4MappedAddress(a) == a = MappedV4
\* the byte length of an address: 0, 4 or 16
AddrLen(a) ==
    IF a = NoAddr THEN 0
    ELSE IF a = MappedV4 THEN 16
    ELSE 4

\* the NIC that has the address assigned, 0 when none has
AddrOwner(a) ==
    IF a = LocalV4 THEN 1
    ELSE IF a = LocalV4b THEN 2
    ELSE 0
\* the address assigned to a NIC
NICAddr(n) == IF n = 1 THEN LocalV4 ELSE LocalV4b

\* stack.CheckLocalAddress
CheckLocalAddress(nicID, a) ==
    LET o == AddrOwner(a) IN
    IF o = 0 \/ o \notin nics THEN 0
    ELSE IF nicID # 0 /\ nicID # o THEN 0
    ELSE o
\* stack.CheckNIC
CheckNIC(nicID) == nicID \in nics
\* stack.IsSubnetBroadcast: no address of the universe is a subnet broadcast
IsSubnetBroadcast(nicID, netProto, a) == FALSE

\* e.isBroadcastOrMulticast
isBroadcastOrMulticast(nicID, netProto, a) ==
    \/ a = IPv4Broadcast
    \/ IsV4MulticastAddress(a)
    \/ IsV6MulticastAddress(a)
    \/ IsSubnetBroadcast(nicID, netProto, a)

(***************************************************************************)
(* e.checkV4MappedLocked: the canonical address, the effective network     *)
(* protocol and the error of e.info.AddrNetProtoLocked.                    *)
(***************************************************************************)
Unmap(a) == IF IsV4MappedAddress(a) THEN RemoteV4 ELSE a
AddrProto(a) ==
    IF AddrLen(a) = 0 THEN info.NetProto
    ELSE IF AddrLen(a) = 4 \/ IsV4MappedAddress(a) THEN "ipv4"
    ELSE "ipv6"
checkV4MappedLocked(a, v6only) ==
    LET unwrapped == Unmap(a)
        netProto == AddrProto(a)
        localLen == AddrLen(info.ID.LocalAddress)
        err == IF localLen = 4 /\ AddrLen(unwrapped) = 16 THEN "ErrInvalidEndpointState"
               ELSE IF localLen = 16 /\ AddrLen(unwrapped) = 4 THEN "ErrNetworkUnreachable"
               ELSE IF netProto = info.NetProto THEN NoError
               ELSE IF netProto = "ipv4" /\ info.NetProto = "ipv6"
                    THEN (IF v6only THEN "ErrNoRoute" ELSE NoError)
               ELSE "ErrInvalidEndpointState"
    IN [addr |-> unwrapped, netProto |-> netProto, err |-> err]

(***************************************************************************)
(* Routes.  A route is born with one reference; Acquire and Release move   *)
(* its count.                                                              *)
(***************************************************************************)
NoRoute == 0
\* a route whose last reference is gone: nothing of it may be read any more
DeadRoute(refs) ==
    [remote |-> NoAddr, local |-> NoAddr, nic |-> 0, netProto |-> "", refs |-> refs]
\* route.Acquire
Acquire(rs, r) == [rs EXCEPT ![r].refs = @ + 1]
\* route.Release
Release(rs, r) ==
    [rs EXCEPT ![r] = IF @.refs - 1 <= 0 THEN DeadRoute(@.refs - 1)
                      ELSE [@ EXCEPT !.refs = @ - 1]]

\* stack.FindRoute: the route found for (nicID, localAddr, remote), or an
\* error.  Whether the routing table has a route is the input found; a local
\* address assigned to another NIC than the one asked for does not rule a
\* route out.
FindRoute(nicID, localAddr, remote, netProto, found) ==
    LET nic == IF nicID # 0 THEN nicID
               ELSE IF AddrOwner(localAddr) # 0 THEN AddrOwner(localAddr)
               ELSE 1
        ok == found /\ nic \in nics
    IN IF ok
       THEN [err |-> NoError,
             r |-> [remote |-> remote,
                    local |-> IF localAddr # NoAddr THEN localAddr ELSE NICAddr(nic),
                    nic |-> nic, netProto |-> netProto, refs |-> 1]]
       ELSE [err |-> "ErrNoRoute", r |-> DeadRoute(0)]

\* e.connectRoute
connectRoute(nicID, addr, netProto, found) ==
    LET localAddr0 == info.ID.LocalAddress
        localAddr1 == IF isBroadcastOrMulticast(nicID, netProto, localAddr0)
                      THEN NoAddr ELSE localAddr0
        mc == IsV4MulticastAddress(addr) \/ IsV6MulticastAddress(addr)
        nicID1 == IF mc /\ nicID = 0 THEN multicastNICID ELSE nicID
        localAddr2 == IF mc /\ localAddr1 = NoAddr /\ nicID1 = 0
                      THEN multicastAddr ELSE localAddr1
        fr == FindRoute(nicID1, localAddr2, addr, netProto, found)
    IN [err |-> fr.err, r |-> fr.r, nicID |-> nicID1]

(***************************************************************************)
(* Init: the endpoint as e.Init leaves it.                                 *)
(***************************************************************************)
EmptyID == [LocalAddress |-> NoAddr, RemoteAddress |-> NoAddr]

\* the goroutines that call the endpoint: as many as Write calls may run at once
Callers == Writers
\* a goroutine that is in no call
IdleCaller == [pc |-> "idle", w |-> 0]
\* the zero sync.RWMutex: no writer has it, no reader has it, no reader is parked
FreeMutex == [w |-> 0, readers |-> {}, parked |-> {}]
\* nobody is calling the endpoint
NoCalls ==
    /\ mu = FreeMutex
    /\ callers = [c \in Callers |-> IdleCaller]

\* the snapshots a buffer of the collector holds: snapshotBufferSize, which is
\* 1000 in the program
snapshotBufferSize == 2
\* make([]uint64, numEntries*snapshotBufferSize): a snapshot is one entry here
NewSnapshots == [i \in 1..snapshotBufferSize |-> 0]
\* the package metric as it is loaded: no log file, nothing started, no
\* stop signal in the channel, no goroutine
ProfilingOff ==
    /\ profilingMetricsStarted = FALSE
    /\ stopProfilingMetrics = 0
    /\ writeCh = [closed |-> FALSE]
    /\ collector = [pc |-> "none", snapshots |-> NewSnapshots, curSnapshot |-> 0]
    /\ writer = [pc |-> "none", s |-> [data |-> NewSnapshots, numSnapshots |-> 0]]
    /\ ProfilingMetricWriter = [nil |-> TRUE, out |-> <<>>, closed |-> FALSE]
    /\ sampled = <<>>

Init ==
    /\ state = Initial
    /\ writeShutdown = FALSE
    /\ \E p \in NetProtos :
         /\ info = [ID |-> EmptyID, BindNICID |-> 0, RegisterNICID |-> 0,
                    BindAddr |-> NoAddr, NetProto |-> p]
         /\ effectiveNetProto = p
    /\ route = NoRoute
    /\ ttl = 0
    /\ multicastTTL = 1
    /\ multicastAddr = NoAddr
    /\ multicastNICID = 0
    /\ multicastMemberships = {}
    /\ sendTOS = 0
    /\ owner = 0
    /\ routes = <<>>
    /\ nics = NICs
    /\ groups = [m \in MembershipPairs |-> 0]
    /\ writers = [w \in Writers |-> IdleWriter]
    /\ last = [op |-> "Init", err |-> NoError, hook |-> FALSE, bound |-> FALSE,
               more |-> FALSE, to |-> FALSE, nic |-> 0, opt |-> "", val |-> 0]
    /\ NoCalls
    /\ ProfilingOff

\* a call given the options more and to and the NIC nic returns err
ReturnedCall(op, err, hook, more, to, nic) ==
    last' = [op |-> op, err |-> err, hook |-> hook,
             bound |-> last.bound \/ (op = "Bind" /\ err = NoError),
             more |-> more, to |-> to, nic |-> nic, opt |-> "", val |-> 0]
\* a call about the option opt, given or giving the value val, returns err
ReturnedOpt(op, err, opt, val) ==
    last' = [op |-> op, err |-> err, hook |-> FALSE, bound |-> last.bound,
             more |-> FALSE, to |-> FALSE, nic |-> 0, opt |-> opt, val |-> val]
Returned(op, err, hook) == ReturnedCall(op, err, hook, FALSE, FALSE, 0)
\* an operation that returns err having changed nothing
FailCall(op, err, hook, more, to, nic) ==
    /\ ReturnedCall(op, err, hook, more, to, nic)
    /\ UNCHANGED <<epVars, stackVars, writers>>
Fail(op, err, hook) == FailCall(op, err, hook, FALSE, FALSE, 0)

(***************************************************************************)
(* The Endpoint before e.Init, and e.Init as a call.                       *)
(***************************************************************************)
\* the zero value of e.state, which is none of the DatagramEndpointStates
Unset == "Unset"
\* The nil map.  It reads like the empty map, but is not the map make()
\* returns: it is written as a set of one pair no join can record.
NilMap == {[nicID |-> 0, multicastAddr |-> NoAddr]}
\* the protocols e.Init is called with: the two it supports and one it does not
InitProtos == NetProtos \cup {"arp"}

\* var e Endpoint
ZeroEndpoint ==
    /\ state = Unset
    /\ writeShutdown = FALSE
    /\ info = [ID |-> EmptyID, BindNICID |-> 0, RegisterNICID |-> 0,
               BindAddr |-> NoAddr, NetProto |-> ""]
    /\ effectiveNetProto = ""
    /\ route = NoRoute
    /\ ttl = 0
    /\ multicastTTL = 0
    /\ multicastAddr = NoAddr
    /\ multicastNICID = 0
    /\ multicastMemberships = NilMap
    /\ sendTOS = 0
    /\ owner = 0
    /\ routes = <<>>
    /\ nics = NICs
    /\ groups = [m \in MembershipPairs |-> 0]
    /\ writers = [w \in Writers |-> IdleWriter]
    /\ last = [op |-> "Zero", err |-> NoError, hook |-> FALSE, bound |-> FALSE,
               more |-> FALSE, to |-> FALSE, nic |-> 0, opt |-> "", val |-> 0]
    /\ NoCalls
    /\ ProfilingOff

\* the test that opens e.Init
AlreadyInitialized == multicastMemberships # NilMap

\* e.Init(s, netProto, transProto, ops).  A panic is a return that assigns
\* nothing.
EndpointInit(netProto) ==
    IF AlreadyInitialized
      THEN Fail("Init", "panic: endpoint is already initialized", FALSE)
    ELSE IF netProto \notin NetProtos
      THEN Fail("Init", "panic: invalid protocols", FALSE)
    ELSE /\ state' = Initial
         /\ writeShutdown' = FALSE
         /\ info' = [ID |-> EmptyID, BindNICID |-> 0, RegisterNICID |-> 0,
                     BindAddr |-> NoAddr, NetProto |-> netProto]
         /\ effectiveNetProto' = netProto
         /\ route' = NoRoute
         /\ ttl' = 0
         /\ multicastTTL' = 1
         /\ multicastAddr' = NoAddr
         /\ multicastNICID' = 0
         /\ multicastMemberships' = {}
         /\ sendTOS' = 0
         /\ owner' = 0
         /\ last' = [op |-> "Init", err |-> NoError, hook |-> FALSE, bound |-> FALSE,
                     more |-> FALSE, to |-> FALSE, nic |-> 0, opt |-> "", val |-> 0]
         /\ UNCHANGED <<stackVars, writers>>

(***************************************************************************)
(* BindAndThen (Bind is BindAndThen with a hook that returns nil).         *)
(***************************************************************************)
\* mutant: the state test lets a Bound endpoint bind again
BindStateOK_Rebind == state \in {Initial, Bound}
\* the state test that opens BindAndThen
BindStateOK == state = Initial

\* the commit at the end of BindAndThen
BindCommit(addr, nicID, netProto) ==
    /\ info' = [info EXCEPT !.ID = [LocalAddress |-> addr, RemoteAddress |-> NoAddr],
                            !.BindNICID = nicID,
                            !.RegisterNICID = nicID,
                            !.BindAddr = addr]
    /\ effectiveNetProto' = netProto
    /\ state' = Bound

\* what BindAndThen does to the endpoint when the hook fails
BindOnHookError(addr, nicID, netProto) ==
    UNCHANGED <<state, info, effectiveNetProto>>

BindAndThen(a, n, hookErr, v6only) ==
    IF ~BindStateOK THEN Fail("Bind", "ErrInvalidEndpointState", FALSE)
    ELSE
      LET c == checkV4MappedLocked(a, v6only)
          check == AddrLen(c.addr) # 0 /\ ~isBroadcastOrMulticast(n, c.netProto, c.addr)
          nicID == IF check THEN CheckLocalAddress(n, c.addr) ELSE n
      IN IF c.err # NoError THEN Fail("Bind", c.err, FALSE)
         ELSE IF check /\ nicID = 0 THEN Fail("Bind", "ErrBadLocalAddress", FALSE)
         ELSE IF hookErr
           THEN /\ BindOnHookError(c.addr, nicID, c.netProto)
                /\ Returned("Bind", "ErrHook", TRUE)
                /\ UNCHANGED <<writeShutdown, route, ttl, multicastTTL, multicastAddr,
                               multicastNICID, multicastMemberships, sendTOS, owner,
                               stackVars, writers>>
           ELSE /\ BindCommit(c.addr, nicID, c.netProto)
                /\ Returned("Bind", NoError, TRUE)
                /\ UNCHANGED <<writeShutdown, route, ttl, multicastTTL, multicastAddr,
                               multicastNICID, multicastMemberships, sendTOS, owner,
                               stackVars, writers>>

(***************************************************************************)
(* ConnectAndThen (Connect is ConnectAndThen with a hook that returns nil).*)
(***************************************************************************)
\* mutant: the switch has no default case
ConnectStateOK_NoDefault == TRUE
\* the switch on e.State() that opens ConnectAndThen: may this state connect
ConnectStateOK == state \in {Initial, Bound, Connected}

\* mutant: a Connected endpoint connects again without looking at BindNICID
ConnectPinned_BoundOnly == state = Bound /\ info.BindNICID # 0
\* the NIC pinning the switch applies: only Bound and Connected look at BindNICID
ConnectPinned == state \in {Bound, Connected} /\ info.BindNICID # 0

\* mutant: the hook's error path releases the route the endpoint holds
ConnectOnHookError_ReleaseHeld(rs, r) ==
    IF route # NoRoute THEN Release(Release(rs, r), route) ELSE Release(rs, r)
\* The routes after the hook of ConnectAndThen failed on the new route r of
\* rs: the error is returned and r is not released.  Nothing points at r any
\* more, so only its count is kept.
ConnectOnHookError(rs, r) == [rs EXCEPT ![r] = DeadRoute(@.refs)]

\* the routes after ConnectAndThen stored the new route r of rs
ConnectReleasePrevious(rs, r) ==
    IF route # NoRoute THEN Release(rs, route) ELSE rs

ConnectAndThen(a, n, hookErr, v6only, found) ==
    IF ~ConnectStateOK THEN FailCall("Connect", "ErrInvalidEndpointState", FALSE, FALSE, FALSE, n)
    ELSE IF ConnectPinned /\ n # 0 /\ n # info.BindNICID
      THEN FailCall("Connect", "ErrInvalidEndpointState", FALSE, FALSE, FALSE, n)
    ELSE
      LET nicID0 == IF ConnectPinned THEN info.BindNICID ELSE n
          c == checkV4MappedLocked(a, v6only)
          cr == connectRoute(nicID0, c.addr, c.netProto, found)
          r == Len(routes) + 1
          rs == Append(routes, cr.r)
          id == [LocalAddress |-> IF state = Initial THEN cr.r.local
                                  ELSE info.ID.LocalAddress,
                 RemoteAddress |-> cr.r.remote]
      IN IF c.err # NoError THEN FailCall("Connect", c.err, FALSE, FALSE, FALSE, n)
         ELSE IF cr.err # NoError THEN FailCall("Connect", cr.err, FALSE, FALSE, FALSE, n)
         ELSE /\ Len(routes) < MaxRoutes
              /\ IF hookErr
                 THEN /\ routes' = ConnectOnHookError(rs, r)
                      /\ ReturnedCall("Connect", "ErrHook", TRUE, FALSE, FALSE, n)
                      /\ UNCHANGED <<epVars, nics, groups, writers>>
                 ELSE /\ routes' = ConnectReleasePrevious(rs, r)
                      /\ route' = r
                      /\ info' = [info EXCEPT !.ID = id, !.RegisterNICID = cr.nicID]
                      /\ effectiveNetProto' = c.netProto
                      /\ state' = Connected
                      /\ ReturnedCall("Connect", NoError, TRUE, FALSE, FALSE, n)
                      /\ UNCHANGED <<writeShutdown, ttl, multicastTTL, multicastAddr,
                                     multicastNICID, multicastMemberships, sendTOS,
                                     owner, nics, groups, writers>>

(***************************************************************************)
(* Disconnect.                                                             *)
(***************************************************************************)
\* mutant: the test asks for a non-empty local address
DisconnectKeepsBound_NonEmpty == info.BindNICID # 0 \/ info.ID.LocalAddress # NoAddr
\* the test of Disconnect that keeps the endpoint Bound
DisconnectKeepsBound == info.BindNICID # 0 \/ info.ID.LocalAddress = NoAddr

\* mutant: the route is released and e.route keeps pointing at it
DisconnectReleaseRoute_Dangling ==
    /\ routes' = Release(routes, route)
    /\ route' = route
\* the end of Disconnect: e.route.Release(); e.route = nil
DisconnectReleaseRoute ==
    /\ routes' = Release(routes, route)
    /\ route' = NoRoute

Disconnect ==
    IF state # Connected THEN Fail("Disconnect", NoError, FALSE)
    ELSE /\ IF DisconnectKeepsBound
            THEN /\ info' = [info EXCEPT !.ID = [LocalAddress |-> info.ID.LocalAddress,
                                                 RemoteAddress |-> NoAddr]]
                 /\ state' = Bound
            ELSE /\ info' = [info EXCEPT !.ID = EmptyID]
                 /\ state' = Initial
         /\ DisconnectReleaseRoute
         /\ Returned("Disconnect", NoError, FALSE)
         /\ UNCHANGED <<writeShutdown, effectiveNetProto, ttl, multicastTTL, multicastAddr,
                        multicastNICID, multicastMemberships, sendTOS, owner,
                        nics, groups, writers>>

(***************************************************************************)
(* The stack's multicast groups.                                           *)
(***************************************************************************)
\* stack.JoinGroup: the error, and the groups after it
JoinGroupErr(m) == IF m.nicID \in nics THEN NoError ELSE "ErrUnknownNICID"
JoinGroup(g, m) == IF JoinGroupErr(m) = NoError THEN [g EXCEPT ![m] = @ + 1] ELSE g
\* stack.LeaveGroup: the error, and the groups after it
LeaveGroupErr(g, m) ==
    IF m.nicID \notin nics THEN "ErrUnknownNICID"
    ELSE IF g[m] = 0 THEN "ErrBadLocalAddress"
    ELSE NoError
LeaveGroup(g, m) == IF LeaveGroupErr(g, m) = NoError THEN [g EXCEPT ![m] = @ - 1] ELSE g

(***************************************************************************)
(* Close.                                                                  *)
(***************************************************************************)
\* the test that makes a second Close return at once
CloseIsNoop == state = Closed

\* the loop of Close over e.multicastMemberships: each pair is left once
CloseLeaveAll(g) ==
    [m \in MembershipPairs |->
        IF m \in multicastMemberships THEN LeaveGroup(g, m)[m] ELSE g[m]]

\* mutant: the route is released by the body and again on the way out
CloseReleaseRoute_Twice ==
    IF route # NoRoute
    THEN routes' = Release(Release(routes, route), route) /\ route' = NoRoute
    ELSE UNCHANGED <<routes, route>>
\* if e.route != nil { e.route.Release(); e.route = nil }
CloseReleaseRoute ==
    IF route # NoRoute
    THEN routes' = Release(routes, route) /\ route' = NoRoute
    ELSE UNCHANGED <<routes, route>>

\* mutant: Close drops the map
CloseResetMemberships_Nil == NilMap
\* e.multicastMemberships = make(map[multicastMembership]struct{})
CloseResetMemberships == {}

Close ==
    IF CloseIsNoop THEN Fail("Close", NoError, FALSE)
    ELSE /\ groups' = CloseLeaveAll(groups)
         /\ multicastMemberships' = CloseResetMemberships
         /\ CloseReleaseRoute
         /\ state' = Closed
         /\ Returned("Close", NoError, FALSE)
         /\ UNCHANGED <<writeShutdown, info, effectiveNetProto, ttl, multicastTTL,
                        multicastAddr, multicastNICID, sendTOS, owner, nics, writers>>

(***************************************************************************)
(* Shutdown.                                                               *)
(***************************************************************************)
\* the values of transport.DatagramEndpointState
DatagramEndpointStates == {Initial, Bound, Connected, Closed}

\* mutant: only a Closed endpoint is refused
ShutdownRefused_ClosedOnly == state = Closed
\* the first case of the switch of Shutdown
ShutdownRefused == state \in {Initial, Closed}
\* the second case of the switch of Shutdown
ShutdownAllowed == state \in {Bound, Connected}

Shutdown ==
    IF ShutdownRefused THEN Fail("Shutdown", "ErrNotConnected", FALSE)
    ELSE IF ~ShutdownAllowed THEN Fail("Shutdown", "panic: unhandled state", FALSE)
    ELSE /\ writeShutdown' = TRUE
         /\ Returned("Shutdown", NoError, FALSE)
         /\ UNCHANGED <<state, info, effectiveNetProto, route, ttl, multicastTTL,
                        multicastAddr, multicastNICID, multicastMemberships, sendTOS,
                        owner, stackVars, writers>>

(***************************************************************************)
(* Write.  WriteSnapshot is the closure run under e.mu.RLock (preceded by  *)
(* the test of opts.More); WriteSend is the rest of Write, run without the *)
(* lock, ending in the deferred route.Release.                             *)
(***************************************************************************)
\* route.DefaultTTL()
RouteDefaultTTL == 64

\* mutant: a configured TTL wins over the multicast TTL
WriteTTL_ConfiguredFirst(r) ==
    IF ttl # 0 THEN ttl
    ELSE IF IsV4MulticastAddress(r.remote) \/ IsV6MulticastAddress(r.remote) THEN multicastTTL
    ELSE RouteDefaultTTL
\* the TTL Write chooses for route r
WriteTTL(r) ==
    IF IsV4MulticastAddress(r.remote) \/ IsV6MulticastAddress(r.remote) THEN multicastTTL
    ELSE IF ttl = 0 THEN RouteDefaultTTL
    ELSE ttl

\* mutant: the snapshot reads e.route without taking a reference
SnapshotHeldRoute_NoAcquire(rs) == rs
\* the routes after the snapshot took the held route
SnapshotHeldRoute(rs) == Acquire(rs, route)

\* mutant: write-shutdown is tested before Closed
WriteStateErr_ShutdownFirst(hasTo) ==
    IF writeShutdown THEN "ErrClosedForSend"
    ELSE IF state = Closed THEN "ErrInvalidEndpointState"
    ELSE IF ~hasTo /\ state # Connected THEN "ErrDestinationRequired"
    ELSE NoError
\* mutant: write-shutdown is tested only once a destination is known
WriteStateErr_ShutdownLast(hasTo) ==
    IF state = Closed THEN "ErrInvalidEndpointState"
    ELSE IF ~hasTo /\ state # Connected THEN "ErrDestinationRequired"
    ELSE IF writeShutdown THEN "ErrClosedForSend"
    ELSE NoError
\* the tests on the endpoint that open the snapshot, in their order
WriteStateErr(hasTo) ==
    IF state = Closed THEN "ErrInvalidEndpointState"
    ELSE IF writeShutdown THEN "ErrClosedForSend"
    ELSE IF ~hasTo /\ state # Connected THEN "ErrDestinationRequired"
    ELSE NoError

\* the NIC a Write asks for: opts.To.NIC, or the bind-to-device option when
\* that is zero; none without a destination
WriteNIC(hasTo, n, btd) ==
    IF ~hasTo THEN 0
    ELSE IF n = 0 THEN btd
    ELSE n

\* The callers of Write are interchangeable: a new call takes the lowest idle
\* slot of writers.
WriteSnapshot(w, more, hasTo, n, a, btd, v6only, found) ==
    /\ writers[w].pc = "idle"
    /\ \A v \in Writers : v < w => writers[v].pc # "idle"
    /\ IF more THEN FailCall("Write", "ErrInvalidOptionValue", FALSE, more, hasTo,
                              WriteNIC(hasTo, n, btd))
       ELSE IF WriteStateErr(hasTo) # NoError
         THEN FailCall("Write", WriteStateErr(hasTo), FALSE, more, hasTo,
                       WriteNIC(hasTo, n, btd))
       ELSE IF ~hasTo
         THEN /\ routes' = SnapshotHeldRoute(routes)
              /\ writers' = [writers EXCEPT ![w] =
                                [pc |-> "send", route |-> route, owner |-> owner,
                                 ttl |-> WriteTTL(routes[route]), tos |-> sendTOS]]
              /\ ReturnedCall("WriteSnapshot", NoError, FALSE, more, hasTo, 0)
              /\ UNCHANGED <<epVars, nics, groups>>
         ELSE
           LET nicID0 == WriteNIC(hasTo, n, btd)
               nicID1 == IF info.BindNICID # 0 THEN info.BindNICID ELSE nicID0
               c == checkV4MappedLocked(a, v6only)
               cr == connectRoute(nicID1, c.addr, c.netProto, found)
           IN IF info.BindNICID # 0 /\ nicID0 # 0 /\ nicID0 # info.BindNICID
                THEN FailCall("Write", "ErrNoRoute", FALSE, more, hasTo, nicID0)
              ELSE IF c.err # NoError THEN FailCall("Write", c.err, FALSE, more, hasTo, nicID0)
              ELSE IF cr.err # NoError THEN FailCall("Write", cr.err, FALSE, more, hasTo, nicID0)
              ELSE /\ Len(routes) < MaxRoutes
                   /\ routes' = Append(routes, cr.r)
                   /\ writers' = [writers EXCEPT ![w] =
                                     [pc |-> "send", route |-> Len(routes) + 1,
                                      owner |-> owner, ttl |-> WriteTTL(cr.r),
                                      tos |-> sendTOS]]
                   /\ ReturnedCall("WriteSnapshot", NoError, FALSE, more, hasTo, nicID0)
                   /\ UNCHANGED <<epVars, nics, groups>>

\* what the part of Write after the snapshot returns
WriteSendErr(r, broadcast, pktErr, sendErr) ==
    IF ~broadcast /\ r.remote = IPv4Broadcast THEN "ErrBroadcastDisabled"
    ELSE IF pktErr THEN "ErrPacketBuilder"
    ELSE IF sendErr THEN "ErrWritePacket"
    ELSE NoError

\* mutant: only a Write that succeeds releases its route
WriteRelease_OnSuccessOnly(rs, r, err) == IF err = NoError THEN Release(rs, r) ELSE rs
\* defer route.Release(): the routes after a Write that returns err gave up r
WriteRelease(rs, r, err) == Release(rs, r)

WriteSend(w, broadcast, pktErr, sendErr) ==
    /\ writers[w].pc = "send"
    /\ routes' = WriteRelease(routes, writers[w].route,
                              WriteSendErr(routes[writers[w].route], broadcast, pktErr, sendErr))
    /\ writers' = [writers EXCEPT ![w] = IdleWriter]
    /\ Returned("Write", WriteSendErr(routes[writers[w].route], broadcast, pktErr, sendErr),
                FALSE)
    /\ UNCHANGED <<epVars, nics, groups>>

(***************************************************************************)
(* SetOwner and the socket options.                                        *)
(***************************************************************************)
SetOwner(o) ==
    /\ owner' = o
    /\ Returned("SetOwner", NoError, FALSE)
    /\ UNCHANGED <<state, writeShutdown, info, effectiveNetProto, route, ttl, multicastTTL,
                   multicastAddr, multicastNICID, multicastMemberships, sendTOS,
                   stackVars, writers>>

\* tcpip.PMTUDiscoveryDont
PMTUDiscoveryDont == 1
\* uint8(v)
Uint8(v) == v % 256

IntOptions == {"MTUDiscoverOption", "MulticastTTLOption", "TTLOption", "IPv4TOSOption",
               "IPv6TrafficClassOption", "KeepaliveCountOption"}

SetSockOptInt(opt, v) ==
    IF opt = "MTUDiscoverOption" /\ v # PMTUDiscoveryDont
    THEN /\ ReturnedOpt("SetSockOptInt", "ErrNotSupported", opt, v)
         /\ UNCHANGED <<epVars, stackVars, writers>>
    ELSE /\ multicastTTL' = IF opt = "MulticastTTLOption" THEN Uint8(v) ELSE multicastTTL
         /\ ttl' = IF opt = "TTLOption" THEN Uint8(v) ELSE ttl
         /\ sendTOS' = IF opt \in {"IPv4TOSOption", "IPv6TrafficClassOption"}
                       THEN Uint8(v) ELSE sendTOS
         /\ ReturnedOpt("SetSockOptInt", NoError, opt, v)
         /\ UNCHANGED <<state, writeShutdown, info, effectiveNetProto, route, multicastAddr,
                        multicastNICID, multicastMemberships, owner, stackVars, writers>>

\* what GetSockOptInt returns
GetSockOptIntResult(opt) ==
    IF opt = "MTUDiscoverOption" THEN [v |-> PMTUDiscoveryDont, err |-> NoError]
    ELSE IF opt = "MulticastTTLOption" THEN [v |-> multicastTTL, err |-> NoError]
    ELSE IF opt = "TTLOption" THEN [v |-> ttl, err |-> NoError]
    ELSE IF opt = "IPv4TOSOption" THEN [v |-> sendTOS, err |-> NoError]
    ELSE IF opt = "IPv6TrafficClassOption" THEN [v |-> sendTOS, err |-> NoError]
    ELSE [v |-> -1, err |-> "ErrUnknownProtocolOption"]

GetSockOptInt(opt) ==
    /\ ReturnedOpt("GetSockOptInt", GetSockOptIntResult(opt).err, opt,
                   GetSockOptIntResult(opt).v)
    /\ UNCHANGED <<epVars, stackVars, writers>>

\* the options of SetSockOpt and GetSockOpt the model tells apart
SockOptions == {"MulticastInterfaceOption", "SocketDetachFilterOption", "LingerOption"}

\* SetSockOpt of an option that is none of the multicast ones: both the case
\* of SocketDetachFilterOption and an option without a case return nil
SetSockOptOther(opt) ==
    /\ opt \in {"SocketDetachFilterOption", "LingerOption"}
    /\ ReturnedOpt("SetSockOpt", NoError, opt, 0)
    /\ UNCHANGED <<epVars, stackVars, writers>>

\* what GetSockOpt returns; the value it stores is the multicast interface
GetSockOptResult(opt) ==
    IF opt = "MulticastInterfaceOption"
    THEN [v |-> [NIC |-> multicastNICID, InterfaceAddr |-> multicastAddr], err |-> NoError]
    ELSE [v |-> [NIC |-> 0, InterfaceAddr |-> NoAddr], err |-> "ErrUnknownProtocolOption"]

GetSockOpt(opt) ==
    /\ ReturnedOpt("GetSockOpt", GetSockOptResult(opt).err, opt, 0)
    /\ UNCHANGED <<epVars, stackVars, writers>>

\* SetSockOpt(*tcpip.MulticastInterfaceOption)
SetMulticastInterface(n, a, v6only) ==
    LET c == checkV4MappedLocked(a, v6only)
        nic == IF n # 0 THEN n ELSE CheckLocalAddress(0, c.addr)
    IN IF c.err # NoError THEN Fail("SetMulticastInterface", c.err, FALSE)
       ELSE IF n = 0 /\ c.addr = NoAddr
         THEN /\ multicastAddr' = NoAddr
              /\ multicastNICID' = 0
              /\ Returned("SetMulticastInterface", NoError, FALSE)
              /\ UNCHANGED <<state, writeShutdown, info, effectiveNetProto, route, ttl,
                             multicastTTL, multicastMemberships, sendTOS, owner,
                             stackVars, writers>>
       ELSE IF n # 0 /\ ~CheckNIC(n) THEN Fail("SetMulticastInterface", "ErrBadLocalAddress", FALSE)
       ELSE IF n = 0 /\ nic = 0 THEN Fail("SetMulticastInterface", "ErrBadLocalAddress", FALSE)
       ELSE IF info.BindNICID # 0 /\ info.BindNICID # nic
         THEN Fail("SetMulticastInterface", "ErrInvalidEndpointState", FALSE)
       ELSE /\ multicastNICID' = nic
            /\ multicastAddr' = c.addr
            /\ Returned("SetMulticastInterface", NoError, FALSE)
            /\ UNCHANGED <<state, writeShutdown, info, effectiveNetProto, route, ttl,
                           multicastTTL, multicastMemberships, sendTOS, owner,
                           stackVars, writers>>

\* the NIC the membership options resolve before they take the lock
MembershipNIC(n, ifAddr, mcast, found) ==
    IF ifAddr = NoAddr
    THEN IF n = 0
         THEN LET fr == FindRoute(0, NoAddr, mcast, info.NetProto, found)
              IN IF fr.err = NoError THEN fr.r.nic ELSE 0
         ELSE n
    ELSE CheckLocalAddress(n, ifAddr)

\* mutant: a join never finds the pair in the set
AlreadyMember_Never(mem) == FALSE
\* the lookup of the pair in e.multicastMemberships
AlreadyMember(mem) == mem \in multicastMemberships

\* SetSockOpt(*tcpip.AddMembershipOption)
AddMembership(n, ifAddr, mcast, found) ==
    LET nicID == MembershipNIC(n, ifAddr, mcast, found)
        memToInsert == [nicID |-> nicID, multicastAddr |-> mcast]
    IN IF ~IsV4MulticastAddress(mcast) /\ ~IsV6MulticastAddress(mcast)
         THEN Fail("AddMembership", "ErrInvalidOptionValue", FALSE)
       ELSE IF nicID = 0 THEN Fail("AddMembership", "ErrUnknownDevice", FALSE)
       ELSE IF AlreadyMember(memToInsert)
         THEN Fail("AddMembership", "ErrPortInUse", FALSE)
       ELSE IF JoinGroupErr(memToInsert) # NoError
         THEN Fail("AddMembership", JoinGroupErr(memToInsert), FALSE)
       ELSE /\ groups' = JoinGroup(groups, memToInsert)
            /\ multicastMemberships' = multicastMemberships \cup {memToInsert}
            /\ Returned("AddMembership", NoError, FALSE)
            /\ UNCHANGED <<state, writeShutdown, info, effectiveNetProto, route, ttl,
                           multicastTTL, multicastAddr, multicastNICID, sendTOS, owner,
                           routes, nics, writers>>

\* mutant: the pair is deleted whatever the stack's LeaveGroup returned
MembershipsAfterLeave_Always(mem, err) == multicastMemberships \ {mem}
\* the set after the stack's LeaveGroup returned err: the pair is deleted
\* only when the stack has left the group
MembershipsAfterLeave(mem, err) ==
    IF err = NoError THEN multicastMemberships \ {mem} ELSE multicastMemberships

\* SetSockOpt(*tcpip.RemoveMembershipOption)
RemoveMembership(n, ifAddr, mcast, found) ==
    LET nicID == MembershipNIC(n, ifAddr, mcast, found)
        memToRemove == [nicID |-> nicID, multicastAddr |-> mcast]
    IN IF ~IsV4MulticastAddress(mcast) /\ ~IsV6MulticastAddress(mcast)
         THEN Fail("RemoveMembership", "ErrInvalidOptionValue", FALSE)
       ELSE IF nicID = 0 THEN Fail("RemoveMembership", "ErrUnknownDevice", FALSE)
       ELSE IF ~AlreadyMember(memToRemove)
         THEN Fail("RemoveMembership", "ErrBadLocalAddress", FALSE)
       ELSE /\ groups' = LeaveGroup(groups, memToRemove)
            /\ multicastMemberships' =
                  MembershipsAfterLeave(memToRemove, LeaveGroupErr(groups, memToRemove))
            /\ Returned("RemoveMembership", LeaveGroupErr(groups, memToRemove), FALSE)
            /\ UNCHANGED <<state, writeShutdown, info, effectiveNetProto, route, ttl,
                           multicastTTL, multicastAddr, multicastNICID, sendTOS, owner,
                           routes, nics, writers>>

(***************************************************************************)
(* The stack loses a NIC, and with it the groups joined on it.             *)
(***************************************************************************)
RemovableNICs == {2}

RemoveNIC(n) ==
    /\ n \in nics
    /\ nics' = nics \ {n}
    /\ groups' = [m \in MembershipPairs |-> IF m.nicID = n THEN 0 ELSE groups[m]]
    /\ Returned("RemoveNIC", NoError, FALSE)
    /\ UNCHANGED <<epVars, routes, writers>>

(***************************************************************************)
(* The inputs.  ops.GetV6Only() and the stack's routing table are outside  *)
(* the endpoint: v6only and found are inputs of each call, drawn where     *)
(* they can change the outcome.                                            *)
(***************************************************************************)
BindAddrs == {NoAddr, LocalV4, McastV4, IPv4Broadcast, RemoteV4}
ConnectAddrs == {RemoteV4, McastV4, MappedV4}
WriteAddrs == {RemoteV4, McastV4, IPv4Broadcast}
IntValues == {42, 298}
Owners == {1}
InterfaceAddrs == {NoAddr, LocalV4}
GroupAddrs == {McastV4, RemoteV4}

BindInputs ==
    {i \in [a : BindAddrs, n : NICIDs, hookErr : BOOLEAN, v6only : BOOLEAN] :
        /\ i.v6only => (i.a = LocalV4 /\ i.n = 0 /\ ~i.hookErr)
        /\ i.a = IPv4Broadcast => i.n = 0
        /\ i.a = McastV4 => i.n # 2}
ConnectInputs ==
    {i \in [a : ConnectAddrs, n : NICIDs, hookErr : BOOLEAN, v6only : BOOLEAN,
            found : BOOLEAN] :
        /\ i.v6only => (i.a \in {RemoteV4, MappedV4} /\ i.n = 0 /\ ~i.hookErr /\ i.found)
        /\ ~i.found => (i.a = RemoteV4 /\ i.n \in {0, 2} /\ ~i.hookErr)}
WriteInputs ==
    {i \in [more : BOOLEAN, hasTo : BOOLEAN, a : WriteAddrs, n : NICIDs, btd : NICIDs,
            v6only : BOOLEAN, found : BOOLEAN] :
        /\ (i.more \/ ~i.hasTo) =>
              (i.a = RemoteV4 /\ i.n = 0 /\ i.btd = 0 /\ ~i.v6only /\ i.found
               /\ ~(i.more /\ ~i.hasTo))
        /\ i.btd # 0 => i.n = 0
        /\ i.v6only => (i.a = RemoteV4 /\ i.n = 0 /\ i.btd = 0 /\ i.found)
        /\ ~i.found => (i.a = RemoteV4 /\ i.n \in {0, 2} /\ i.btd = 0)}
SendInputs ==
    {i \in [broadcast : BOOLEAN, pktErr : BOOLEAN, sendErr : BOOLEAN] :
        ~(i.pktErr /\ i.sendErr)}

DoBind == \E i \in BindInputs : BindAndThen(i.a, i.n, i.hookErr, i.v6only)
DoConnect == \E i \in ConnectInputs : ConnectAndThen(i.a, i.n, i.hookErr, i.v6only, i.found)
DoWriteSnapshot(ws) ==
    \E w \in ws, i \in WriteInputs :
        WriteSnapshot(w, i.more, i.hasTo, i.n, i.a, i.btd, i.v6only, i.found)
DoWriteSend(ws) ==
    \E w \in ws, i \in SendInputs : WriteSend(w, i.broadcast, i.pktErr, i.sendErr)
DoSetOwner == \E o \in Owners : SetOwner(o)
DoSetSockOptInt ==
    \E opt \in IntOptions, v \in IntValues \cup {PMTUDiscoveryDont} : SetSockOptInt(opt, v)
DoGetSockOptInt == \E opt \in IntOptions : GetSockOptInt(opt)
DoSetSockOptOther == \E opt \in SockOptions : SetSockOptOther(opt)
DoGetSockOpt == \E opt \in SockOptions : GetSockOpt(opt)
DoSetMulticastInterface ==
    \E n \in NICIDs, a \in InterfaceAddrs : SetMulticastInterface(n, a, FALSE)
DoAddMembership ==
    \E n \in NICIDs, a \in InterfaceAddrs, g \in GroupAddrs, found \in BOOLEAN :
        AddMembership(n, a, g, found)
DoRemoveMembership ==
    \E n \in NICIDs, a \in InterfaceAddrs, g \in GroupAddrs, found \in BOOLEAN :
        RemoveMembership(n, a, g, found)
DoRemoveNIC == \E n \in RemovableNICs : RemoveNIC(n)

(***************************************************************************)
(* Spec: the life cycle of the endpoint and its routes, with one Write at  *)
(* a time running beside the other operations.                             *)
(***************************************************************************)
OneWriter == {1}

Next ==
    \/ DoBind /\ Alone
    \/ DoConnect /\ Alone
    \/ Disconnect /\ Alone
    \/ Shutdown /\ Alone
    \/ Close /\ Alone
    \/ DoWriteSnapshot(OneWriter) /\ Alone
    \/ DoWriteSend(OneWriter) /\ Alone

Spec == Init /\ [][Next]_vars

(***************************************************************************)
(* SpecMembership: the membership set, the stack's groups and Close, on an *)
(* endpoint that connects and disconnects.                                 *)
(***************************************************************************)
\* one Connect per kind of outcome
ConnectFew ==
    {i \in ConnectInputs : i.a = RemoteV4 /\ i.n = 0 /\ ~i.v6only /\ i.found /\ ~i.hookErr}

NextMembership ==
    \/ \E i \in ConnectFew : ConnectAndThen(i.a, i.n, i.hookErr, i.v6only, i.found) /\ Alone
    \/ Disconnect /\ Alone
    \/ Close /\ Alone
    \/ DoAddMembership /\ Alone
    \/ DoRemoveMembership /\ Alone
    \/ DoRemoveNIC /\ Alone

SpecMembership == Init /\ [][NextMembership]_vars

(***************************************************************************)
(* SpecOptions: the option setters, on an endpoint that binds, shuts down  *)
(* and closes.                                                             *)
(***************************************************************************)
\* a Bind without a NIC pinning, one that pins NIC 1 and one that pins NIC 2
BindFew ==
    {i \in BindInputs : /\ ~i.v6only /\ ~i.hookErr
                        /\ \/ i.a = NoAddr /\ i.n \in {0, 2}
                           \/ i.a = LocalV4 /\ i.n = 0}

NextOptions ==
    \/ \E i \in BindFew : BindAndThen(i.a, i.n, i.hookErr, i.v6only) /\ Alone
    \/ Shutdown /\ Alone
    \/ Close /\ Alone
    \/ DoSetOwner /\ Alone
    \/ DoSetSockOptInt /\ Alone
    \/ DoGetSockOptInt /\ Alone
    \/ DoSetMulticastInterface /\ Alone
    \/ DoSetSockOptOther /\ Alone
    \/ DoGetSockOpt /\ Alone

SpecOptions == Init /\ [][NextOptions]_vars

(***************************************************************************)
(* SpecWrite: up to MaxWriters Write calls in flight beside Connect,       *)
(* Disconnect, Shutdown and Close.                                         *)
(***************************************************************************)
NextWrite ==
    \/ \E i \in ConnectFew : ConnectAndThen(i.a, i.n, i.hookErr, i.v6only, i.found) /\ Alone
    \/ Disconnect /\ Alone
    \/ Shutdown /\ Alone
    \/ Close /\ Alone
    \/ DoWriteSnapshot(Writers) /\ Alone
    \/ DoWriteSend(Writers) /\ Alone

SpecWrite == Init /\ [][NextWrite]_vars

(***************************************************************************)
(* SpecTTL: a Write beside the TTL options, on an endpoint that connects   *)
(* to unicast and multicast addresses.                                     *)
(***************************************************************************)
\* a Connect to a unicast and one to a multicast address
ConnectUniMulti ==
    {i \in ConnectInputs :
        i.a \in {RemoteV4, McastV4} /\ i.n = 0 /\ ~i.v6only /\ i.found /\ ~i.hookErr}
TTLOptions == {"TTLOption", "MulticastTTLOption"}

NextTTL ==
    \/ \E i \in ConnectUniMulti : ConnectAndThen(i.a, i.n, i.hookErr, i.v6only, i.found) /\ Alone
    \/ \E opt \in TTLOptions, v \in IntValues : SetSockOptInt(opt, v) /\ Alone
    \/ Disconnect /\ Alone
    \/ DoWriteSnapshot(OneWriter) /\ Alone
    \/ DoWriteSend(OneWriter) /\ Alone

SpecTTL == Init /\ [][NextTTL]_vars

(***************************************************************************)
(* SpecInit: e.Init called on an Endpoint in every stage of its life.      *)
(* Until e.Init has returned the callers have no endpoint to call.         *)
(***************************************************************************)
NextInit ==
    \/ \E p \in InitProtos : EndpointInit(p) /\ Alone
    \/ /\ state # Unset
       /\ \/ \E i \in BindFew : BindAndThen(i.a, i.n, i.hookErr, i.v6only) /\ Alone
          \/ \E i \in ConnectFew : ConnectAndThen(i.a, i.n, i.hookErr, i.v6only, i.found) /\ Alone
          \/ Disconnect /\ Alone
          \/ Close /\ Alone
          \/ DoAddMembership /\ Alone

SpecInit == ZeroEndpoint /\ [][NextInit]_vars

(***************************************************************************)
(* The properties.                                                         *)
(***************************************************************************)
AllIdle == \A w \in Writers : writers[w].pc = "idle"
RouteIDs == 1..Len(routes)

\* C1: after every operation, failed ones included, the endpoint holds a
\* route exactly when its state is Connected.
C1_RouteIffConnected == (route # NoRoute) <=> (state = Connected)

\* a Connect has just failed on a Connected endpoint, which keeps its route
C1_Witness ==
    /\ last.op = "Connect" /\ last.err # NoError
    /\ state = Connected /\ route # NoRoute

\* C2: a Close releases the held route at most once and leaves each recorded
\* membership at the stack at most once, touching no other route and no
\* other group; a Close of a Closed endpoint changes nothing; the state is
\* Closed after every Close.
C2_CloseIdempotent ==
    [][last'.op = "Close" =>
         /\ state' = Closed
         /\ Len(routes') = Len(routes)
         /\ \A r \in RouteIDs :
               /\ routes'[r].refs >= routes[r].refs - 1
               /\ r # route => routes'[r] = routes[r]
         /\ \A m \in MembershipPairs :
               /\ groups'[m] >= groups[m] - 1
               /\ m \notin multicastMemberships => groups'[m] = groups[m]
         /\ state = Closed => UNCHANGED <<epVars, stackVars, writers>>]_vars

\* A Close has returned on an endpoint that was Closed already: a membership
\* can be recorded on a Closed endpoint only after the Close that closed it,
\* and that Close released the route.
C2_Witness ==
    /\ last.op = "Close" /\ state = Closed
    /\ multicastMemberships # {}
    /\ \E r \in RouteIDs : routes[r].refs = 0

\* C3: once Closed the state stays Closed; Bind and Connect from Closed fail
\* with invalid-endpoint-state without running the hook; Disconnect from
\* Closed changes nothing.
C3_ClosedAbsorbing ==
    [][state = Closed =>
         /\ state' = Closed
         /\ last'.op \in {"Bind", "Connect"} =>
               (last'.err = "ErrInvalidEndpointState" /\ ~last'.hook)
         /\ last'.op = "Disconnect" => UNCHANGED <<epVars, stackVars, writers>>]_vars

\* a Connect has been refused on a Closed endpoint
C3_Witness ==
    /\ state = Closed
    /\ last.op = "Connect" /\ last.err = "ErrInvalidEndpointState"

\* C4: once Closed, no operation but Close changes a field of the endpoint.
C4_NoMutationAfterClose ==
    [][(state = Closed /\ last'.op # "Close") => UNCHANGED epVars]_vars

\* C5: on a Closed endpoint the membership set is empty and the stack holds
\* none of the endpoint's joins, whatever the order in which Close and the
\* membership calls took the lock.
C5_ClosedHasNoMembership ==
    state = Closed =>
        /\ multicastMemberships = {}
        /\ \A m \in MembershipPairs : groups[m] = 0

\* C6: a Bind in a state other than Initial fails with invalid-endpoint-state,
\* does not run the hook, and leaves state, identity, bound NIC, registration
\* NIC, bind address and effective protocol as they were.
C6_BindOnlyFromInitial ==
    [][(last'.op = "Bind" /\ state # Initial) =>
         /\ last'.err = "ErrInvalidEndpointState"
         /\ ~last'.hook
         /\ UNCHANGED <<state, info, effectiveNetProto>>]_vars

\* a Bind has been refused on an endpoint a Bind had bound
C6_Witness ==
    /\ state = Bound /\ last.bound
    /\ last.op = "Bind" /\ last.err = "ErrInvalidEndpointState"

\* C7: Disconnect from Connected leaves an endpoint that a Bind(A) has bound
\* in state Bound with local address A and no remote address, and an endpoint
\* no Bind has bound in state Initial with an empty identity.
C7_DisconnectRestoresBind ==
    [][(state = Connected /\ last'.op = "Disconnect") =>
         IF last.bound
         THEN /\ state' = Bound
              /\ info'.ID = [LocalAddress |-> info.BindAddr, RemoteAddress |-> NoAddr]
         ELSE /\ state' = Initial
              /\ info'.ID = EmptyID]_vars

\* C8 as stated: Disconnect from Connected goes to Bound when the bound NIC
\* is non-zero or the local address is non-empty, else to Initial.
C8_DisconnectTargetAsStated ==
    [][(state = Connected /\ last'.op = "Disconnect") =>
         IF info.BindNICID # 0 \/ info.ID.LocalAddress # NoAddr
         THEN /\ state' = Bound
              /\ info'.ID = [LocalAddress |-> info.ID.LocalAddress, RemoteAddress |-> NoAddr]
         ELSE /\ state' = Initial
              /\ info'.ID = EmptyID]_vars

\* C8 amended: Disconnect from Connected goes to Bound, keeping only the local
\* address, when the bound NIC is non-zero or the local address is empty, else
\* to Initial with an empty identity; either way the held route is released
\* once and cleared; in any other state Disconnect changes nothing.
C8_DisconnectTarget ==
    [][last'.op = "Disconnect" =>
         IF state = Connected
         THEN /\ IF info.BindNICID # 0 \/ info.ID.LocalAddress = NoAddr
                 THEN /\ state' = Bound
                      /\ info'.ID = [LocalAddress |-> info.ID.LocalAddress,
                                     RemoteAddress |-> NoAddr]
                 ELSE /\ state' = Initial
                      /\ info'.ID = EmptyID
              /\ route' = NoRoute
              /\ routes'[route].refs = routes[route].refs - 1
              /\ \A r \in RouteIDs \ {route} : routes'[r] = routes[r]
         ELSE UNCHANGED <<epVars, stackVars, writers>>]_vars

\* a Disconnect has taken a Connected endpoint with no NIC pinning and a
\* non-empty local address to Initial
C8_Witness ==
    /\ last.op = "Disconnect" /\ state = Initial
    /\ \E r \in RouteIDs : routes[r].refs = 0

\* C9: a Bind or Connect that returns an error leaves state, identity, bound
\* and registration NIC, bind address, effective protocol and the held route
\* (with its reference count) as they were.
C9_FailedCallChangesNothing ==
    [][(last'.op \in {"Bind", "Connect"} /\ last'.err # NoError) =>
         /\ UNCHANGED <<state, info, effectiveNetProto, route>>
         /\ route # NoRoute => routes'[route] = routes[route]]_vars

\* the hook of a Connect has failed on a Connected endpoint
C9_Witness ==
    /\ last.op = "Connect" /\ last.err = "ErrHook" /\ last.hook
    /\ state = Connected /\ route # NoRoute

\* C10: with no Write in flight, every route the stack resolved has one
\* reference if the endpoint holds it and none otherwise.
C10_RoutesConserved ==
    AllIdle => \A r \in RouteIDs : routes[r].refs = (IF r = route THEN 1 ELSE 0)

\* the Write calls in flight that hold route r
InFlight(r) == {w \in Writers : writers[w].pc = "send" /\ writers[w].route = r}

\* C11: every route's reference count is one for the endpoint, if it holds
\* the route, plus one for each Write in flight on it: a Write holds exactly
\* one reference from its snapshot to its return and none before or after,
\* whatever it returns, and a Write that fails in the snapshot holds none.
C11_WriteHoldsOneReference ==
    \A r \in RouteIDs :
        routes[r].refs = (IF r = route THEN 1 ELSE 0) + Cardinality(InFlight(r))

\* a Write to an explicit broadcast destination has been rejected after its
\* snapshot, and no Write is in flight
C11_Witness ==
    /\ last.op = "Write" /\ last.err = "ErrBroadcastDisabled"
    /\ AllIdle
    /\ \E r \in RouteIDs : routes[r].refs = 0

\* C12: the route of a Write in flight has a reference count of at least one
\* and is not a released route; Close and Disconnect on a Connected endpoint
\* give up the held route at once and leave the Writes in flight as they are.
C12_SnapshotRouteStaysAlive ==
    /\ [](\A w \in Writers : writers[w].pc = "send" =>
              /\ routes[writers[w].route].refs >= 1
              /\ routes[writers[w].route].remote # NoAddr)
    /\ [][(last'.op \in {"Close", "Disconnect"} /\ state = Connected) =>
             (state' # Connected /\ route' = NoRoute /\ writers' = writers)]_vars

\* Close has returned while two Writes are in flight on the route the
\* endpoint held (only the held route is shared by two Writes)
C12_Witness ==
    /\ last.op = "Close" /\ state = Closed /\ route = NoRoute
    /\ \E v, w \in Writers :
          /\ v # w
          /\ writers[v].pc = "send" /\ writers[w].pc = "send"
          /\ writers[v].route = writers[w].route

\* the step is the first part of a Write: its test of More and its snapshot;
\* the second part of a Write always changes writers
SnapshotStep ==
    \/ last'.op = "WriteSnapshot"
    \/ last'.op = "Write" /\ writers' = writers

\* C13: a Write fails in a fixed order of tests, in every state: More set
\* gives invalid-option-value and takes no route; else a Closed endpoint
\* gives invalid-endpoint-state; else a set write-shutdown flag gives
\* closed-for-send; else no destination on an endpoint that is not Connected
\* gives destination-required.
C13_WriteErrorPrecedence ==
    [][SnapshotStep =>
         IF last'.more
           THEN /\ last'.op = "Write" /\ last'.err = "ErrInvalidOptionValue"
                /\ UNCHANGED <<epVars, stackVars, writers>>
         ELSE IF state = Closed
           THEN last'.op = "Write" /\ last'.err = "ErrInvalidEndpointState"
         ELSE IF writeShutdown
           THEN last'.op = "Write" /\ last'.err = "ErrClosedForSend"
         ELSE IF ~last'.to /\ state # Connected
           THEN last'.op = "Write" /\ last'.err = "ErrDestinationRequired"
         ELSE TRUE]_vars

\* a Write has failed invalid-endpoint-state on a Closed endpoint whose
\* write-shutdown flag is set
C13_Witness ==
    /\ last.op = "Write" /\ last.err = "ErrInvalidEndpointState"
    /\ state = Closed /\ writeShutdown

\* C14: a Shutdown that succeeds sets the write-shutdown flag; no operation
\* clears the flag; while it is set and the endpoint is not Closed, every
\* Write without More fails closed-for-send, with or without a destination.
C14_ShutdownIsForGood ==
    [][/\ (last'.op = "Shutdown" /\ last'.err = NoError) => writeShutdown'
       /\ writeShutdown => writeShutdown'
       /\ (SnapshotStep /\ writeShutdown /\ state # Closed /\ ~last'.more)
             => (last'.op = "Write" /\ last'.err = "ErrClosedForSend")]_vars

\* a Write has failed closed-for-send on a Connected endpoint
C14_Witness ==
    /\ last.op = "Write" /\ last.err = "ErrClosedForSend" /\ last.to
    /\ state = Connected /\ writeShutdown

\* C15: the state is always one of Initial, Bound, Connected, Closed; a
\* Shutdown from Bound or Connected returns nil and sets the write-shutdown
\* flag, one from Initial or Closed returns not-connected and leaves the flag
\* as it was; no Shutdown changes the state, the held route or any route.
C15_ShutdownByState ==
    /\ [](state \in DatagramEndpointStates)
    /\ [][last'.op = "Shutdown" =>
             /\ IF state \in {Bound, Connected}
                THEN last'.err = NoError /\ writeShutdown'
                ELSE last'.err = "ErrNotConnected" /\ UNCHANGED writeShutdown
             /\ UNCHANGED <<state, route, routes>>]_vars

\* a Shutdown has been refused on an endpoint in state Initial
C15_Witness ==
    /\ last.op = "Shutdown" /\ last.err = "ErrNotConnected"
    /\ state = Initial /\ ~writeShutdown

\* C16: the TTL a Write takes at its snapshot is the multicast TTL when the
\* remote address of its route is multicast, else the configured TTL when
\* that is not zero, else the default TTL of the route, for the held route
\* and for the route of an explicit destination alike; the Write keeps that
\* TTL until it returns, whatever the options become meanwhile.
C16_WriteTTLRule ==
    [][\A w \in Writers :
          /\ (writers[w].pc = "idle" /\ writers'[w].pc = "send") =>
                LET r == routes'[writers'[w].route]
                IN writers'[w].ttl =
                      IF IsV4MulticastAddress(r.remote) \/ IsV6MulticastAddress(r.remote)
                      THEN multicastTTL
                      ELSE IF ttl # 0 THEN ttl
                      ELSE RouteDefaultTTL
          /\ (writers[w].pc = "send" /\ writers'[w].pc = "send") =>
                writers'[w].ttl = writers[w].ttl]_vars

\* a Write on a held multicast route carries the default multicast TTL of 1
\* although a TTL of 42 is configured
C16_Witness ==
    /\ last.op = "WriteSnapshot" /\ ~last.to
    /\ ttl = 42 /\ multicastTTL = 1
    /\ \E w \in Writers :
          /\ writers[w].pc = "send" /\ writers[w].route = route
          /\ routes[route].remote = McastV4
          /\ writers[w].ttl = 1

\* the integer options that are stored and read back
StoredIntOptions == {"TTLOption", "MulticastTTLOption", "IPv4TOSOption",
                     "IPv6TrafficClassOption"}

\* C17: a GetSockOptInt that follows a successful SetSockOptInt of the same
\* stored option returns the value that was set, whatever integer it was.
C17_OptionRoundTrip ==
    [][(/\ last.op = "SetSockOptInt" /\ last.err = NoError
        /\ last.opt \in StoredIntOptions
        /\ last'.op = "GetSockOptInt" /\ last'.opt = last.opt)
       => (last'.err = NoError /\ last'.val = last.val)]_vars

\* the options each accessor has a case for
HandledOptions ==
    [SetSockOptInt |-> StoredIntOptions \cup {"MTUDiscoverOption"},
     GetSockOptInt |-> StoredIntOptions \cup {"MTUDiscoverOption"},
     SetSockOpt |-> {"MulticastInterfaceOption", "AddMembershipOption",
                     "RemoveMembershipOption", "SocketDetachFilterOption"},
     GetSockOpt |-> {"MulticastInterfaceOption"}]

\* C20: SetSockOptInt, GetSockOptInt, SetSockOpt and GetSockOpt return
\* unknown-protocol-option for an option they have no case for, and change
\* no field of the endpoint.
C20_UnknownOptionRejected ==
    [][(/\ last'.op \in DOMAIN HandledOptions
        /\ last'.opt \notin HandledOptions[last'.op])
       => (last'.err = "ErrUnknownProtocolOption" /\ UNCHANGED epVars)]_vars

\* C18: a join of a pair that is a member fails port-in-use and changes
\* neither the set nor the stack's groups; a join that succeeds adds a pair
\* that was not a member and joins it once at the stack; a leave of a pair
\* (non-zero NIC, multicast address) that is not a member fails
\* bad-local-address and changes neither; the stack never holds more than
\* one join of a pair.
C18_OneEntryPerPair ==
    /\ [](\A mem \in MembershipPairs : groups[mem] <= 1)
    /\ [][\A n \in NICIDs, a \in InterfaceAddrs, g \in GroupAddrs, found \in BOOLEAN :
             LET mem == [nicID |-> MembershipNIC(n, a, g, found), multicastAddr |-> g]
             IN /\ AddMembership(n, a, g, found) =>
                     IF mem \in multicastMemberships
                     THEN /\ last'.err = "ErrPortInUse"
                          /\ UNCHANGED <<multicastMemberships, groups>>
                     ELSE IF last'.err = NoError
                     THEN /\ multicastMemberships' = multicastMemberships \cup {mem}
                          /\ groups' = [groups EXCEPT ![mem] = @ + 1]
                     ELSE UNCHANGED <<multicastMemberships, groups>>
                /\ (/\ RemoveMembership(n, a, g, found)
                    /\ IsV4MulticastAddress(g) /\ mem.nicID # 0
                    /\ mem \notin multicastMemberships)
                   => /\ last'.err = "ErrBadLocalAddress"
                      /\ UNCHANGED <<multicastMemberships, groups>>]_vars

\* a second join of a pair has failed port-in-use on an open endpoint
C18_Witness ==
    /\ last.op = "AddMembership" /\ last.err = "ErrPortInUse"
    /\ state # Closed
    /\ \E mem \in multicastMemberships : groups[mem] = 1

\* C19: a non-zero bound NIC is never changed by any step.  While it is set,
\* a Connect given another non-zero NIC fails invalid-endpoint-state and
\* changes nothing, a Write (that passes the tests of C13) to a destination
\* on another non-zero NIC fails no-route, and every route a Connect or a
\* Write obtains is on the bound NIC.  No Connect changes the bound NIC:
\* without a pinning a Connect on an open endpoint is never refused
\* invalid-endpoint-state, goes by the NIC it was given, and on success the
\* remote address of the identity is that of the new route.
C19_PinningIsKept ==
    [][/\ info.BindNICID # 0 => info'.BindNICID = info.BindNICID
       /\ last'.op = "Connect" =>
             /\ info'.BindNICID = info.BindNICID
             /\ (info.BindNICID # 0 /\ last'.nic \notin {0, info.BindNICID}) =>
                   /\ last'.err = "ErrInvalidEndpointState"
                   /\ UNCHANGED <<epVars, stackVars, writers>>
             /\ (info.BindNICID = 0 /\ state # Closed) =>
                   last'.err # "ErrInvalidEndpointState"
             /\ last'.err = NoError =>
                   /\ info'.ID.RemoteAddress = routes'[route'].remote
                   /\ info.BindNICID # 0 => routes'[route'].nic = info.BindNICID
                   /\ (info.BindNICID = 0 /\ last'.nic # 0) =>
                         routes'[route'].nic = last'.nic
       /\ (SnapshotStep /\ last'.to /\ ~last'.more /\ info.BindNICID # 0
           /\ state # Closed /\ ~writeShutdown) =>
             /\ last'.nic \notin {0, info.BindNICID} => last'.err = "ErrNoRoute"
             /\ last'.err = NoError =>
                   routes'[Len(routes')].nic = info.BindNICID]_vars

\* a Connect on NIC 2 has been refused on a Connected endpoint that a Bind
\* pinned to NIC 1
C19_Witness ==
    /\ last.op = "Connect" /\ last.err = "ErrInvalidEndpointState" /\ last.nic = 2
    /\ state = Connected /\ last.bound /\ info.BindNICID = 1
    /\ routes[route].nic = 1

\* C21: an Init on an endpoint that an Init has initialized panics and
\* assigns nothing, in every state the endpoint is in, Closed included; an
\* Init with a protocol that is neither IPv4 nor IPv6 panics and assigns
\* nothing; an Init that returns leaves state Initial, no route, an empty
\* identity, TTL 0, multicast TTL 1, ToS 0, write-shutdown false and an
\* empty membership set.
C21_InitOnce ==
    [][last'.op = "Init" =>
         IF state # Unset \/ info'.NetProto \notin NetProtos
         THEN /\ last'.err \in {"panic: endpoint is already initialized",
                                 "panic: invalid protocols"}
              /\ state # Unset => last'.err = "panic: endpoint is already initialized"
              /\ UNCHANGED <<epVars, stackVars, writers>>
         ELSE /\ last'.err = NoError
              /\ state' = Initial /\ route' = NoRoute /\ info'.ID = EmptyID
              /\ ttl' = 0 /\ multicastTTL' = 1 /\ sendTOS' = 0
              /\ ~writeShutdown' /\ multicastMemberships' = {}]_vars

\* an Init has panicked on an endpoint that was used and closed
C21_Witness ==
    /\ last.op = "Init" /\ last.err = "panic: endpoint is already initialized"
    /\ state = Closed
    /\ \E r \in RouteIDs : routes[r].refs = 0

\* C22: on an endpoint that is not Closed the membership set follows the
\* stack's joins and leaves step by step.  A join adds its pair, which was
\* not recorded, exactly when the stack took the join, and then returns nil;
\* a leave removes its pair, which was recorded, exactly when the stack took
\* the leave, and then returns nil; a join or leave the stack refused, or
\* that did not reach the stack, leaves the set as it was; no other
\* operation but Close changes the set.
C22_MembershipsFollowStack ==
    [][state # Closed =>
         IF last'.op = "AddMembership"
           THEN IF groups' # groups
                THEN /\ last'.err = NoError
                     /\ \E mem \in MembershipPairs \ multicastMemberships :
                           /\ groups' = [groups EXCEPT ![mem] = @ + 1]
                           /\ multicastMemberships' = multicastMemberships \cup {mem}
                ELSE last'.err # NoError /\ UNCHANGED multicastMemberships
         ELSE IF last'.op = "RemoveMembership"
           THEN IF groups' # groups
                THEN /\ last'.err = NoError
                     /\ \E mem \in multicastMemberships :
                           /\ groups' = [groups EXCEPT ![mem] = @ - 1]
                           /\ multicastMemberships' = multicastMemberships \ {mem}
                ELSE last'.err # NoError /\ UNCHANGED multicastMemberships
         ELSE IF last'.op # "Close" THEN UNCHANGED multicastMemberships
         ELSE TRUE]_vars

\* a leave the stack refused, the NIC being gone, has kept its pair recorded
C22_Witness ==
    /\ last.op = "RemoveMembership" /\ last.err = "ErrUnknownNICID"
    /\ state # Closed
    /\ \E mem \in multicastMemberships : mem.nicID \notin nics

\* C23: in every state, whatever the order in which Bind and the multicast
\* interface option were called, a non-zero bound NIC and a non-zero
\* multicast interface NIC are the same NIC.
C23_MulticastInterfaceAgrees ==
    (info.BindNICID # 0 /\ multicastNICID # 0) => info.BindNICID = multicastNICID

(***************************************************************************)
(* e.mu.  The operations above are what a caller does between locking and  *)
(* unlocking e.mu; here the callers are goroutines that take the lock,     *)
(* wait for it, run the operation and give the lock back.                  *)
(*                                                                         *)
(* sync.RWMutex: Lock first takes the writers' mutex mu.w, which lets no   *)
(* new reader in, and returns when the readers that were in have left.     *)
(* RLock returns at once unless a writer has mu.w, and then parks until    *)
(* that writer's Unlock, which hands the read lock to every parked reader. *)
(***************************************************************************)
\* the lock a call of op, about the option opt, takes: Lock, RLock or none
LockOf(op, opt) ==
    IF op \in {"Bind", "Connect", "Disconnect", "Shutdown", "Close", "AddMembership",
               "RemoveMembership"}
      THEN "Lock"
    ELSE IF op = "Write" THEN "RLock"
    ELSE IF op = "SetSockOptInt"
      THEN IF opt \in StoredIntOptions THEN "Lock" ELSE "none"
    ELSE IF op = "GetSockOptInt"
      THEN IF opt \in {"MulticastTTLOption", "TTLOption"} THEN "Lock"
           ELSE IF opt \in {"IPv4TOSOption", "IPv6TrafficClassOption"} THEN "RLock"
           ELSE "none"
    ELSE "none"

\* the calls the goroutines make.  While a goroutine waits for e.mu only the
\* lock it waits for matters: which of the calls that take this lock it is in
\* shows when it runs.
LockCalls ==
    [op : {"Bind", "Connect", "Disconnect", "Shutdown", "Close", "AddMembership",
           "RemoveMembership", "Write"}, opt : {""}]
    \cup [op : {"SetSockOptInt"}, opt : {"TTLOption"}]
    \cup [op : {"GetSockOptInt"}, opt : {"TTLOption", "IPv4TOSOption", "KeepaliveCountOption"}]

\* goroutine c enters a call and comes to the place where it takes the lock
Call(c, op, opt) ==
    /\ callers[c].pc = "idle"
    /\ callers' = [callers EXCEPT ![c].pc = LockOf(op, opt)]
    /\ UNCHANGED <<epVars, stackVars, writers, last, mu, profVars>>

\* e.mu.Lock(), as far as getting the writers' mutex
Lock(c) ==
    /\ callers[c].pc = "Lock"
    /\ mu.w = 0
    /\ mu' = [mu EXCEPT !.w = c]
    /\ callers' = [callers EXCEPT ![c].pc = "locked"]
    /\ UNCHANGED <<epVars, stackVars, writers, last, profVars>>

\* e.mu.RLock()
RLock(c) ==
    /\ callers[c].pc = "RLock"
    /\ IF mu.w = 0
       THEN /\ mu' = [mu EXCEPT !.readers = @ \cup {c}]
            /\ callers' = [callers EXCEPT ![c].pc = "rlocked"]
       ELSE /\ mu' = [mu EXCEPT !.parked = @ \cup {c}]
            /\ callers' = [callers EXCEPT ![c].pc = "parked"]
    /\ UNCHANGED <<epVars, stackVars, writers, last, profVars>>

\* e.mu.Unlock() by the goroutine that has the lock
Unlock == [w |-> 0, readers |-> mu.parked, parked |-> {}]
\* e.mu.RUnlock() by c
RUnlock(c) == [mu EXCEPT !.readers = @ \ {c}]
\* mutant: the closure of Write returns without giving the read lock back
WriteRUnlock_Never(c) == mu
\* defer e.mu.RUnlock() in the closure of Write
WriteRUnlock(c) == RUnlock(c)

\* the goroutines once c has returned and the readers in woken have the lock
CallersAfter(c, woken) ==
    [d \in Callers |-> IF d = c THEN IdleCaller
                       ELSE IF d \in woken THEN [callers[d] EXCEPT !.pc = "rlocked"]
                       ELSE callers[d]]

\* the stack finds a route for Connect until it has handed out MaxRoutes
\* routes, and none from then on
RouteFound == Len(routes) < MaxRoutes
\* what a call of op does between locking and unlocking
Body(op, opt) ==
    \/ op = "Bind" /\ BindAndThen(NoAddr, 0, FALSE, FALSE)
    \/ op = "Connect" /\ ConnectAndThen(RemoteV4, 0, FALSE, FALSE, RouteFound)
    \/ op = "Disconnect" /\ Disconnect
    \/ op = "Shutdown" /\ Shutdown
    \/ op = "Close" /\ Close
    \/ op = "AddMembership" /\ AddMembership(1, NoAddr, McastV4, TRUE)
    \/ op = "RemoveMembership" /\ RemoveMembership(1, NoAddr, McastV4, TRUE)
    \/ op = "SetSockOptInt" /\ SetSockOptInt(opt, 42)
    \/ op = "GetSockOptInt" /\ GetSockOptInt(opt)

\* c has e.mu: Lock returns when the last reader has left, the operation
\* runs, and the deferred Unlock gives the lock back
Locked(c) ==
    /\ callers[c].pc = "locked"
    /\ mu.readers = {}
    /\ \E k \in LockCalls : LockOf(k.op, k.opt) = "Lock" /\ Body(k.op, k.opt)
    /\ mu' = Unlock
    /\ callers' = CallersAfter(c, mu.parked)
    /\ UNCHANGED profVars

\* c has the read lock of e.mu in the closure of Write, which returns an
\* error or the snapshot; either way the read lock is given back
WriteRLocked(c) ==
    /\ callers[c].pc = "rlocked"
    /\ \E w \in Writers :
         /\ WriteSnapshot(w, FALSE, FALSE, 0, RemoteV4, 0, FALSE, TRUE)
         /\ callers' = [callers EXCEPT ![c] =
                           IF writers'[w].pc = "send"
                           THEN [callers[c] EXCEPT !.pc = "send", !.w = w]
                           ELSE IdleCaller]
    /\ mu' = WriteRUnlock(c)
    /\ UNCHANGED profVars

\* c has the read lock of e.mu in GetSockOptInt
GetRLocked(c) ==
    /\ callers[c].pc = "rlocked"
    /\ \E k \in LockCalls :
         LockOf(k.op, k.opt) = "RLock" /\ k.op = "GetSockOptInt" /\ GetSockOptInt(k.opt)
    /\ callers' = [callers EXCEPT ![c] = IdleCaller]
    /\ mu' = RUnlock(c)
    /\ UNCHANGED profVars

\* the rest of a Write, which c runs without the lock
Send(c) ==
    /\ callers[c].pc = "send"
    /\ \E sendErr \in BOOLEAN : WriteSend(callers[c].w, TRUE, FALSE, sendErr)
    /\ callers' = [callers EXCEPT ![c] = IdleCaller]
    /\ UNCHANGED <<mu, profVars>>

\* a call that takes no lock
Lockless(c) ==
    /\ callers[c].pc = "none"
    /\ \E k \in LockCalls : LockOf(k.op, k.opt) = "none" /\ Body(k.op, k.opt)
    /\ callers' = [callers EXCEPT ![c] = IdleCaller]
    /\ UNCHANGED <<mu, profVars>>

(***************************************************************************)
(* SpecLock: the goroutines call the endpoint at will.  A goroutine that   *)
(* can take a step takes it in the end, and a goroutine that waits for a   *)
(* lock that is free again and again gets it in the end.                   *)
(***************************************************************************)
DoCall == \E c \in Callers, k \in LockCalls : Call(c, k.op, k.opt)
DoLock == \E c \in Callers : Lock(c)
DoRLock == \E c \in Callers : RLock(c)
DoLocked == \E c \in Callers : Locked(c)
DoWriteRLocked == \E c \in Callers : WriteRLocked(c)
DoGetRLocked == \E c \in Callers : GetRLocked(c)
DoSend == \E c \in Callers : Send(c)
DoLockless == \E c \in Callers : Lockless(c)

NextLock ==
    \/ DoCall
    \/ DoLock
    \/ DoRLock
    \/ DoLocked
    \/ DoWriteRLocked
    \/ DoGetRLocked
    \/ DoSend
    \/ DoLockless

FairLock ==
    \A c \in Callers :
        /\ SF_vars(Lock(c))
        /\ WF_vars(RLock(c))
        /\ WF_vars(Locked(c))
        /\ WF_vars(WriteRLocked(c))
        /\ WF_vars(GetRLocked(c))
        /\ WF_vars(Send(c))
        /\ WF_vars(Lockless(c))

\* an IPv4 endpoint
InitLock == Init /\ info.NetProto = "ipv4"

SpecLock == InitLock /\ [][NextLock]_vars /\ FairLock

\* the goroutines that have e.mu, for writing or for reading
Holders == (IF mu.w = 0 THEN {} ELSE {mu.w}) \cup mu.readers

\* C24: with any number of goroutines calling Bind, Connect, Disconnect,
\* Shutdown, Close, Write, the option getters and setters and the membership
\* options, every call that has started returns in the end; a Write that is
\* sending holds no lock, so that no call waits for it; and no goroutine
\* that waits for e.mu holds e.mu.
C24_EveryCallReturns ==
    /\ \A c \in Callers : (callers[c].pc # "idle") ~> (callers[c].pc = "idle")
    /\ [](\A c \in Callers :
            /\ callers[c].pc = "send" => c \notin Holders
            /\ callers[c].pc \in {"Lock", "RLock", "parked"} => c \notin Holders)
\* a Close has run from Lock to Unlock while a Write was sending
C24_Witness ==
    /\ last.op = "Close" /\ state = Closed
    /\ \E c \in Callers : callers[c].pc = "send"

(***************************************************************************)
(* The profiling metrics of package metric: StartProfilingMetrics, the     *)
(* goroutines collectProfilingMetrics and writeProfilingMetrics, and       *)
(* StopProfilingMetrics.  A snapshot is one number here, the place of the  *)
(* sample among all samples taken, and the line written for it is that     *)
(* number.                                                                 *)
(***************************************************************************)
\* the samples the collector takes unless it is told to stop before
MaxSamples == 5

\* a function of package metric returns err
ProfilingReturned(op, err) ==
    /\ Returned(op, err, FALSE)
    /\ UNCHANGED <<epVars, stackVars, writers, lockVars>>

\* runsc opens the log file and assigns it to ProfilingMetricWriter
SetProfilingMetricWriter ==
    /\ ProfilingMetricWriter.nil
    /\ ProfilingMetricWriter' = [ProfilingMetricWriter EXCEPT !.nil = FALSE]
    /\ ProfilingReturned("SetProfilingMetricWriter", NoError)
    /\ UNCHANGED <<profilingMetricsStarted, stopProfilingMetrics, writeCh, collector,
                   writer, sampled>>

\* StartProfilingMetrics(profilingMetrics, profilingRate).  initialized is
\* metric.initialized; metrics tells the three kinds of profilingMetrics
\* apart: "unknown" names a metric that is not registered, "none" leaves
\* numMetrics at 0, "some" does not.
StartProfilingMetrics(initialized, metrics) ==
    IF ~initialized
      THEN /\ ProfilingReturned("StartProfilingMetrics", "not initialized")
           /\ UNCHANGED profVars
    ELSE IF ProfilingMetricWriter.nil
      THEN /\ ProfilingReturned("StartProfilingMetrics", "no log file")
           /\ UNCHANGED profVars
    ELSE IF profilingMetricsStarted
      THEN /\ ProfilingReturned("StartProfilingMetrics", "already started")
           /\ UNCHANGED profVars
    ELSE /\ profilingMetricsStarted' = TRUE
         /\ IF metrics = "unknown"
              THEN /\ ProfilingReturned("StartProfilingMetrics", "unknown metric")
                   /\ UNCHANGED <<writeCh, collector, writer>>
            ELSE IF metrics = "none"
              THEN /\ ProfilingReturned("StartProfilingMetrics", NoError)
                   /\ UNCHANGED <<writeCh, collector, writer>>
            ELSE /\ writeCh' = [closed |-> FALSE]
                 /\ collector' = [pc |-> "sleep", snapshots |-> NewSnapshots,
                                  curSnapshot |-> 0]
                 /\ writer' = [writer EXCEPT !.pc = "header"]
                 /\ ProfilingReturned("StartProfilingMetrics", NoError)
         /\ UNCHANGED <<stopProfilingMetrics, ProfilingMetricWriter, sampled>>

\* StopProfilingMetrics(): the send goes through if the channel, which holds
\* one signal, is empty, and else the default case returns
StopProfilingMetrics ==
    /\ stopProfilingMetrics' = 1
    /\ ProfilingReturned("StopProfilingMetrics", NoError)
    /\ UNCHANGED <<profilingMetricsStarted, writeCh, collector, writer,
                   ProfilingMetricWriter, sampled>>

\* collectProfilingMetrics from the sleep to curSnapshot++: one more sample.
\* The collector sleeps on before its last sample until the stop signal is
\* in the channel, so that it takes MaxSamples samples at most.
CollectSample ==
    /\ collector.pc = "sleep"
    /\ Len(sampled) < MaxSamples - 1 \/ stopProfilingMetrics = 1
    /\ sampled' = Append(sampled, Len(sampled) + 1)
    /\ collector' = [collector EXCEPT
                        !.snapshots[collector.curSnapshot + 1] = Len(sampled) + 1,
                        !.curSnapshot = @ + 1,
                        !.pc = "select"]
    /\ UNCHANGED <<epVars, stackVars, writers, last, lockVars, profilingMetricsStarted,
                   stopProfilingMetrics, writeCh, writer, ProfilingMetricWriter>>

\* mutant: the collector that is told to stop leaves the loop at once
AfterStopSignal_NoFlush == "close"
\* case <-stopProfilingMetrics: where the collector goes with the signal
AfterStopSignal == "sendStop"

\* the select, and the test of a full buffer that follows its default case
CollectSelect ==
    /\ collector.pc = "select"
    /\ IF stopProfilingMetrics = 1
       THEN /\ stopProfilingMetrics' = 0
            /\ collector' = [collector EXCEPT !.pc = AfterStopSignal]
       ELSE /\ collector' = [collector EXCEPT
                                !.pc = IF collector.curSnapshot = snapshotBufferSize
                                       THEN "sendFull" ELSE "sleep"]
            /\ UNCHANGED stopProfilingMetrics
    /\ UNCHANGED <<epVars, stackVars, writers, last, lockVars, profilingMetricsStarted,
                   writeCh, writer, ProfilingMetricWriter, sampled>>

\* writeCh <- profilingSnapshot{...} meets s, ok := <-snapshots: writeCh has
\* no buffer, so the collector sends when the writer receives.  After the
\* send of a full buffer the collector starts a new one; after the send that
\* follows the stop signal it leaves the loop.
Handoff ==
    /\ collector.pc \in {"sendStop", "sendFull"}
    /\ writer.pc = "recv"
    /\ ~writeCh.closed
    /\ writer' = [pc |-> "write",
                  s |-> [data |-> collector.snapshots,
                         numSnapshots |-> collector.curSnapshot]]
    /\ collector' = IF collector.pc = "sendStop"
                    THEN [collector EXCEPT !.pc = "close"]
                    ELSE [pc |-> "sleep", snapshots |-> NewSnapshots, curSnapshot |-> 0]
    /\ UNCHANGED <<epVars, stackVars, writers, last, lockVars, profilingMetricsStarted,
                   stopProfilingMetrics, writeCh, ProfilingMetricWriter, sampled>>

\* close(writeCh)
CollectClose ==
    /\ collector.pc = "close"
    /\ writeCh' = [closed |-> TRUE]
    /\ collector' = [collector EXCEPT !.pc = "done"]
    /\ UNCHANGED <<epVars, stackVars, writers, last, lockVars, profilingMetricsStarted,
                   stopProfilingMetrics, writer, ProfilingMetricWriter, sampled>>

\* io.WriteString(ProfilingMetricWriter, header): the header ends with a
\* line of zeros
WriteHeader ==
    /\ writer.pc = "header"
    /\ ProfilingMetricWriter' = [ProfilingMetricWriter EXCEPT !.out = Append(@, <<0>>)]
    /\ writer' = [writer EXCEPT !.pc = "recv"]
    /\ UNCHANGED <<epVars, stackVars, writers, last, lockVars, profilingMetricsStarted,
                   stopProfilingMetrics, writeCh, collector, sampled>>

\* the lines of the snapshots data[0] to data[numSnapshots-1]
SnapshotLines(s) == [i \in 1..s.numSnapshots |-> s.data[i]]

\* the writer builds the lines of s and writes them with one io.WriteString
WriteSnapshots ==
    /\ writer.pc = "write"
    /\ ProfilingMetricWriter' =
          [ProfilingMetricWriter EXCEPT !.out = Append(@, SnapshotLines(writer.s))]
    /\ writer' = [writer EXCEPT !.pc = "recv"]
    /\ UNCHANGED <<epVars, stackVars, writers, last, lockVars, profilingMetricsStarted,
                   stopProfilingMetrics, writeCh, collector, sampled>>

\* s, ok := <-snapshots on the closed channel: !ok, break, and
\* ProfilingMetricWriter.Close()
WriterClose ==
    /\ writer.pc = "recv"
    /\ writeCh.closed
    /\ ProfilingMetricWriter' = [ProfilingMetricWriter EXCEPT !.closed = TRUE]
    /\ writer' = [writer EXCEPT !.pc = "done"]
    /\ UNCHANGED <<epVars, stackVars, writers, last, lockVars, profilingMetricsStarted,
                   stopProfilingMetrics, writeCh, collector, sampled>>

(***************************************************************************)
(* SpecProfiling: the profiler, started and stopped at will.  The two      *)
(* goroutines are scheduled: each takes the step it can take in the end.   *)
(***************************************************************************)
DoStartProfilingMetrics ==
    \E initialized \in BOOLEAN, metrics \in {"some", "none", "unknown"} :
        StartProfilingMetrics(initialized, metrics)

NextProfiling ==
    \/ SetProfilingMetricWriter
    \/ DoStartProfilingMetrics
    \/ StopProfilingMetrics
    \/ CollectSample
    \/ CollectSelect
    \/ Handoff
    \/ CollectClose
    \/ WriteHeader
    \/ WriteSnapshots
    \/ WriterClose

FairProfiling ==
    /\ WF_vars(CollectSample)
    /\ WF_vars(CollectSelect)
    /\ WF_vars(Handoff)
    /\ WF_vars(CollectClose)
    /\ WF_vars(WriteHeader)
    /\ WF_vars(WriteSnapshots)
    /\ WF_vars(WriterClose)

SpecProfiling == Init /\ [][NextProfiling]_vars /\ FairProfiling

RECURSIVE Concat(_)
\* the sequences of ss, one after the other
Concat(ss) == IF ss = <<>> THEN <<>> ELSE Head(ss) \o Concat(Tail(ss))
\* the lines in the file after the header
LinesWritten == Concat(Tail(ProfilingMetricWriter.out))
\* the goroutines have been launched
Launched == collector.pc # "none"
\* the collector has handed over all it had and the writer has closed the file
Flushed == writeCh.closed /\ ProfilingMetricWriter.closed

\* C25: once StartProfilingMetrics has launched the goroutines, a stop signal
\* leads to the channel closed and the file closed; the lines in the file are
\* at all times the first of the samples taken, in the order taken, and all
\* of them once the file is closed; they were written as buffers of
\* snapshotBufferSize samples, but for the last, which is not empty; and a
\* StopProfilingMetrics returns, with a signal in the channel.
C25_StopFlushes ==
    /\ (Launched /\ stopProfilingMetrics = 1) ~> Flushed
    /\ [](ProfilingMetricWriter.out # <<>> =>
            /\ Len(LinesWritten) <= Len(sampled)
            /\ LinesWritten = SubSeq(sampled, 1, Len(LinesWritten))
            /\ ProfilingMetricWriter.closed => LinesWritten = sampled
            /\ \A i \in 2..Len(ProfilingMetricWriter.out) :
                  /\ Len(ProfilingMetricWriter.out[i]) \in 1..snapshotBufferSize
                  /\ i < Len(ProfilingMetricWriter.out)
                       => Len(ProfilingMetricWriter.out[i]) = snapshotBufferSize)
    /\ [][last'.op = "StopProfilingMetrics" /\ last' # last
            => stopProfilingMetrics' = 1]_vars
\* the file is closed and holds two full buffers and a last one that is not
\* full, after two calls of StopProfilingMetrics
C25_Witness ==
    /\ Flushed
    /\ Len(ProfilingMetricWriter.out) = 4
    /\ Len(ProfilingMetricWriter.out[4]) < snapshotBufferSize
    /\ last.op = "StopProfilingMetrics" /\ stopProfilingMetrics = 1

=============================================================================
